---- MODULE Spec2Model ----
(***************************************************************************)
(* Model of the SSE session controller of pumpfun-monitor-client:          *)
(* PumpMonitorClient.run_monitor / _run_sse_monitor driving SSEClient      *)
(* (connect_stream, listen_stream, is_connection_stale,                    *)
(* needs_health_check, perform_health_check) and GracefulShutdown.         *)
(*                                                                         *)
(* The controller is one thread; pc is its position in _run_sse_monitor.   *)
(* The environment is the server (connect outcome, events, stream end,     *)
(* read errors, probe outcome), the clock (Tick) and the OS signal that    *)
(* sets the shutdown flag at any moment (Signal).                          *)
(***************************************************************************)
EXTENDS Integers, Sequences, FiniteSets, TLC

(* Configuration values of PumpMonitorConfig, scaled down. *)
max_retries == 3
reconnect_delay == 1
stream_timeout == 2
health_check_interval == 3
(* The clock runs from 1 to MaxTime. *)
MaxTime == 7
(* The server sends at most MaxEvents events that reach the statistics. *)
MaxEvents == 1

(* last_health_check = None (falsy); the clock never reads 0. *)
NoTime == 0

(* Event names a stream can deliver; "" is an event: line with no name. *)
EventNames == {"connected", "ping", "trade", ""}
NoEvent == "none"
(* The names handle_sse_event passes to StatsManager.add_event. *)
CountedNames == EventNames \ {"connected", "ping", ""}

(* The requests.Session objects of SSEClient: self.session, made once in   *)
(* __init__, and the one perform_health_check makes for each probe.        *)
MainSession == "session"
HealthSession == "health_session"
NoSession == "none"
(* connect_stream sends the stream request through self.session. *)
StreamSession == MainSession

(* connection_id = None, and event data without a "connection_id" key. *)
NoId == "None"
(* Event data that is no dict (a JSON list, number, string or null). *)
NotDict == "not_dict"
(* What the data of a connected event holds under "connection_id". *)
ConnData == {"c1", NoId, NotDict}

VARIABLES
    pc,                  \* position of the controller in run_monitor/_run_sse_monitor
    connection_attempts, \* local of _run_sse_monitor
    shutdown_requested,  \* GracefulShutdown.shutdown_requested
    now,                 \* time.time()
    last_data_time,      \* SSEClient.last_data_time
    last_health_check,   \* SSEClient.last_health_check (NoTime = None)
    connected,           \* SSEClient.connected
    event,               \* the event the for loop is processing
    sleep_until,         \* end of the running time.sleep(reconnect_delay)
    (* history variables: they record what happened, no action reads them *)
    lastStep,            \* the last operation the controller performed
    consec_fails,        \* connect_stream failures since the last success
    consec_bad,          \* connections in a row that ended in a failure
    sd_at,               \* where the controller was when the flag was set
    leave_reason,        \* why the controller last went back to the loop top
    delayed,             \* a reconnect delay was waited since then
    slept_through,       \* a delay ran to its end although the flag was set in it
    processed,           \* an event of the open stream went through the loop body
    delivered_at,        \* when listen_stream yielded `event`, kept until the
                         \* staleness check of that event (NoTime afterwards)
    response_open,       \* the Response in the local `response` still holds its connection
    total_events,        \* StatsManager.total_events
    event_counts,        \* StatsManager.event_counts (0 = no entry)
    saved,               \* records FileManager.save_event appended to the output file
    connection_id,       \* SSEClient.connection_id
    probe_session,       \* the requests.Session the last health request went through
    event_data,          \* the "connection_id" entry of the data of `event`
    (* listen_stream reading one response line by line *)
    lines,               \* what response.iter_lines yields
    idx,                 \* how many of them the for loop has consumed
    current_event,       \* local of listen_stream
    emitted,             \* the events yielded so far
    (* history variables of the assembler *)
    cur_start,           \* index of the event: line that started current_event
    emitted_from,        \* for each yielded event, the index of its event: line
    stream_start         \* how many of the lines came from earlier responses

vars == <<pc, connection_attempts, shutdown_requested, now, last_data_time,
          last_health_check, connected, event, event_data, delivered_at, sleep_until, lastStep,
          consec_fails, consec_bad, sd_at, leave_reason, delayed, slept_through,
          processed, response_open, total_events, event_counts, saved, connection_id, probe_session, lines, idx, current_event, emitted,
          cur_start, emitted_from, stream_start>>

asmVars == <<lines, idx, current_event, emitted, cur_start, emitted_from,
             stream_start>>
ctrlVars == <<pc, connection_attempts, shutdown_requested, now, last_data_time,
              last_health_check, connected, event, event_data, delivered_at, sleep_until, lastStep,
              consec_fails, consec_bad, sd_at, leave_reason, delayed,
              slept_through, processed, response_open, total_events,
              event_counts, saved, connection_id, probe_session>>

statVars == <<total_events, event_counts, saved>>

clientVars == <<last_data_time, last_health_check, connected>>
histVars == <<consec_fails, consec_bad, leave_reason, delayed>>

Sat(n) == IF n > max_retries THEN max_retries + 1 ELSE n

(* current_event = None; a record of one shape stands for the dict. *)
NoData == [kind |-> "absent", s |-> <<>>]
NoCurrent == [active |-> FALSE, event |-> <<>>, has_data |-> FALSE,
              data |-> NoData, has_id |-> FALSE, id |-> <<>>]

AsmIdle ==
    /\ lines = <<>>
    /\ idx = 0
    /\ current_event = NoCurrent
    /\ emitted = <<>>
    /\ cur_start = 0
    /\ emitted_from = <<>>
    /\ stream_start = 0

CtrlInit ==
    /\ pc = "start"
    /\ connection_attempts = 0
    /\ shutdown_requested = FALSE
    /\ now = 1
    /\ last_data_time = 1
    /\ last_health_check = NoTime
    /\ connected = FALSE
    /\ event = NoEvent
    /\ sleep_until = 0
    /\ lastStep = "none"
    /\ consec_fails = 0
    /\ consec_bad = 0
    /\ sd_at = "none"
    /\ leave_reason = "start"
    /\ delayed = FALSE
    /\ slept_through = FALSE
    /\ processed = FALSE
    /\ response_open = FALSE
    /\ total_events = 0
    /\ event_counts = [e \in EventNames |-> 0]
    /\ saved = 0
    /\ connection_id = NoId
    /\ event_data = NoId
    /\ probe_session = NoSession
    /\ delivered_at = NoTime

Init == CtrlInit /\ AsmIdle


(***************************************************************************)
(* SSEClient / GracefulShutdown predicates                                 *)
(***************************************************************************)

(* GracefulShutdown.should_shutdown *)
should_shutdown == shutdown_requested

(* SSEClient.is_connection_stale *)
is_connection_staleAtBoundary == (now - last_data_time) >= stream_timeout

is_connection_stale == (now - last_data_time) > stream_timeout

(* SSEClient.needs_health_check *)
needs_health_check ==
    IF last_health_check = NoTime
    THEN TRUE
    ELSE (now - last_health_check) > health_check_interval

(* connection_attempts >= self.config.max_retries *)
RetriesExhaustedOffByOne(n) == n > max_retries

(* A ceiling test that lets two more failures through. *)
RetriesExhaustedLate(n) == n >= max_retries + 2

RetriesExhausted(n) == n >= max_retries

(***************************************************************************)
(* run_monitor: the initial health check                                   *)
(***************************************************************************)
(* run_monitor that goes on to _run_sse_monitor whatever the check says. *)
CheckServerHealthIgnored ==
    /\ pc = "start"
    /\ \E ok \in BOOLEAN :
          IF ok
          THEN pc' = "top" /\ lastStep' = "health_ok"
          ELSE pc' = "top" /\ lastStep' = "health_fail"
    /\ probe_session' = MainSession
    /\ UNCHANGED <<connection_attempts, shutdown_requested, now, clientVars,
                   event, event_data, delivered_at, sleep_until, histVars,
                   sd_at, slept_through, processed, response_open, asmVars,
                   statVars, connection_id>>

CheckServerHealth ==
    /\ pc = "start"
    /\ \E ok \in BOOLEAN :
          IF ok
          THEN pc' = "top" /\ lastStep' = "health_ok"
          ELSE pc' = "aborted" /\ lastStep' = "health_fail"
    /\ probe_session' = MainSession
    /\ UNCHANGED <<connection_attempts, shutdown_requested, now, clientVars,
                   event, event_data, delivered_at, sleep_until, histVars, sd_at, slept_through, processed,
                   response_open,
                   asmVars,
                   statVars,
                   connection_id>>

(***************************************************************************)
(* _run_sse_monitor: top of the while loop                                 *)
(***************************************************************************)
LoopTop ==
    /\ pc = "top"
    /\ IF should_shutdown
       THEN pc' = "done" /\ lastStep' = "shutdown_top"
       ELSE pc' = "connect" /\ lastStep' = "loop_check"
    /\ UNCHANGED <<connection_attempts, shutdown_requested, now, clientVars,
                   event, event_data, delivered_at, sleep_until, histVars, sd_at, slept_through, processed,
                   response_open,
                   asmVars,
                   statVars,
                   connection_id,
                   probe_session>>

(* connect_stream succeeded; the controller resets the retry counter. *)
ConnectOKNoReset ==
    /\ pc = "connect"
    /\ connected' = TRUE
    /\ last_data_time' = now
    /\ last_health_check' = now
    /\ connection_attempts' = connection_attempts
    /\ pc' = "listen"
    /\ lastStep' = "connect_ok"
    /\ consec_fails' = 0
    /\ processed' = FALSE
    /\ response_open' = TRUE
    /\ UNCHANGED <<shutdown_requested, now, event, event_data, delivered_at, sleep_until, consec_bad,
                   leave_reason, delayed, sd_at, slept_through,
                   asmVars,
                   statVars,
                   connection_id,
                   probe_session>>

ConnectOKNoProbeTimer ==
    /\ pc = "connect"
    /\ connected' = TRUE
    /\ last_data_time' = now
    /\ last_health_check' = last_health_check
    /\ connection_attempts' = 0
    /\ pc' = "listen"
    /\ lastStep' = "connect_ok"
    /\ consec_fails' = 0
    /\ processed' = FALSE
    /\ response_open' = TRUE
    /\ UNCHANGED <<shutdown_requested, now, event, event_data, delivered_at, sleep_until, consec_bad,
                   leave_reason, delayed, sd_at, slept_through,
                   asmVars,
                   statVars,
                   connection_id,
                   probe_session>>

ConnectOK ==
    /\ pc = "connect"
    /\ connected' = TRUE
    /\ last_data_time' = now
    /\ last_health_check' = now
    /\ connection_attempts' = 0
    /\ pc' = "listen"
    /\ lastStep' = "connect_ok"
    /\ consec_fails' = 0
    /\ processed' = FALSE
    /\ response_open' = TRUE
    /\ UNCHANGED <<shutdown_requested, now, event, event_data, delivered_at, sleep_until, consec_bad,
                   leave_reason, delayed, sd_at, slept_through,
                   asmVars,
                   statVars,
                   connection_id,
                   probe_session>>

(* connect_stream failed: count the attempt, give up or sleep and retry. *)
(* connect_stream whose except branch leaves `connected` as it was. *)
ConnectFailStaysConnected ==
    /\ pc = "connect"
    /\ connection_attempts' = connection_attempts + 1
    /\ IF RetriesExhausted(connection_attempts + 1)
       THEN pc' = "done" /\ lastStep' = "retries" /\ UNCHANGED sleep_until
       ELSE /\ pc' = "sleep"
            /\ lastStep' = "connect_fail"
            /\ sleep_until' = now + reconnect_delay
    /\ consec_fails' = Sat(consec_fails + 1)
    /\ consec_bad' = Sat(consec_bad + 1)
    /\ leave_reason' = "connect_fail"
    /\ delayed' = FALSE
    /\ response_open' \in {FALSE, response_open}
    /\ UNCHANGED <<shutdown_requested, now, clientVars, event, event_data,
                   delivered_at, sd_at, slept_through, processed, asmVars,
                   statVars, connection_id,
                   probe_session>>

ConnectFail ==
    /\ pc = "connect"
    /\ connected' = FALSE
    /\ connection_attempts' = connection_attempts + 1
    /\ IF RetriesExhausted(connection_attempts + 1)
       THEN pc' = "done" /\ lastStep' = "retries" /\ UNCHANGED sleep_until
       ELSE /\ pc' = "sleep"
            /\ lastStep' = "connect_fail"
            /\ sleep_until' = now + reconnect_delay
    /\ consec_fails' = Sat(consec_fails + 1)
    /\ consec_bad' = Sat(consec_bad + 1)
    /\ leave_reason' = "connect_fail"
    /\ delayed' = FALSE
    /\ response_open' \in {FALSE, response_open}
    /\ UNCHANGED <<shutdown_requested, now, last_data_time, last_health_check,
                   event, event_data, delivered_at, sd_at, slept_through, processed,
                   asmVars,
                   statVars,
                   connection_id,
                   probe_session>>

(* time.sleep(reconnect_delay) returns when the delay is over; a signal    *)
(* handler that returns normally does not cut it short.                    *)
SleepDone ==
    /\ pc = "sleep"
    /\ now >= sleep_until
    /\ pc' = "top"
    /\ lastStep' = "sleep_done"
    /\ delayed' = TRUE
    /\ slept_through' = (slept_through \/ sd_at = "sleep")
    /\ UNCHANGED <<connection_attempts, shutdown_requested, now, clientVars,
                   event, event_data, delivered_at, sleep_until, consec_fails, consec_bad, leave_reason,
                   sd_at, processed,
                   response_open,
                   asmVars,
                   statVars,
                   connection_id,
                   probe_session>>

(***************************************************************************)
(* listen_stream as the for loop sees it                                   *)
(***************************************************************************)

(* The generator yields the next assembled event. *)
Deliver ==
    /\ pc = "listen"
    /\ \E e \in EventNames :
          /\ e \in CountedNames => total_events < MaxEvents
          /\ event' = e
          /\ event_data' \in (IF e = "connected" THEN ConnData ELSE {NoId})
    /\ delivered_at' = now
    /\ pc' = "ev_shutdown"
    /\ lastStep' = "deliver"
    /\ UNCHANGED <<connection_attempts, shutdown_requested, now, clientVars,
                   sleep_until, histVars, sd_at, slept_through, processed,
                   response_open,
                   asmVars,
                   statVars,
                   connection_id,
                   probe_session>>

(* The for loop is left: back to the top of the while loop, no sleep.     *)
(* The code never calls response.close(): the connection of a stream that  *)
(* was read to its end or that raised is released by the transport; after  *)
(* a break it is released only when the garbage collector finalizes the    *)
(* abandoned generator and Response, which may or may not have happened by *)
(* the next connect_stream (response_open' \in {FALSE, response_open}).     *)
BackToTopWithDelay(reason) ==
    /\ pc' = "sleep"
    /\ sleep_until' = now + reconnect_delay
    /\ lastStep' = reason
    /\ leave_reason' = reason
    /\ delayed' = FALSE
    /\ event' = NoEvent /\ event_data' = NoId
    /\ delivered_at' = NoTime

BackToTop(reason) ==
    /\ pc' = "top"
    /\ sleep_until' = sleep_until
    /\ lastStep' = reason
    /\ leave_reason' = reason
    /\ delayed' = FALSE
    /\ event' = NoEvent /\ event_data' = NoId
    /\ delivered_at' = NoTime

(* The server closes the stream: iter_lines ends, the generator returns. *)
(* A stream end that is counted like a failed connect. *)
StreamEndCounted ==
    /\ pc = "listen"
    /\ BackToTop("stream_end")
    /\ consec_bad' = 0
    /\ response_open' = FALSE
    /\ connection_attempts' = connection_attempts + 1
    /\ UNCHANGED <<shutdown_requested, now, clientVars, consec_fails, sd_at,
                   slept_through, processed, asmVars, statVars, connection_id,
                   probe_session>>

StreamEnd ==
    /\ pc = "listen"
    /\ BackToTop("stream_end")
    /\ consec_bad' = 0
    /\ response_open' = FALSE
    /\ UNCHANGED <<connection_attempts, shutdown_requested, now, clientVars,
                   consec_fails, sd_at, slept_through, processed,
                   asmVars,
                   statVars,
                   connection_id,
                   probe_session>>

(* iter_lines raises: listen_stream logs it, clears connected and returns. *)
(* The exception never leaves the generator, so the handler of            *)
(* _run_sse_monitor at lines 540-546 (sleep, continue) is not entered;     *)
(* none of the operations of the loop body raises into it either.          *)
StreamErrorCounted ==
    /\ pc = "listen"
    /\ connected' = FALSE
    /\ BackToTop("stream_error")
    /\ consec_bad' = Sat(consec_bad + 1)
    /\ response_open' = FALSE
    /\ connection_attempts' = connection_attempts + 1
    /\ UNCHANGED <<shutdown_requested, now, last_data_time,
                   last_health_check, consec_fails, sd_at, slept_through, processed,
                   asmVars,
                   statVars,
                   connection_id,
                   probe_session>>

StreamError ==
    /\ pc = "listen"
    /\ connected' = FALSE
    /\ BackToTop("stream_error")
    /\ consec_bad' = Sat(consec_bad + 1)
    /\ response_open' = FALSE
    /\ UNCHANGED <<connection_attempts, shutdown_requested, now, last_data_time,
                   last_health_check, consec_fails, sd_at, slept_through, processed,
                   asmVars,
                   statVars,
                   connection_id,
                   probe_session>>

(***************************************************************************)
(* _run_sse_monitor: the body of the for loop, one event                   *)
(***************************************************************************)
EvShutdownSkipped ==
    /\ pc = "ev_shutdown"
    /\ pc' = "ev_stale" /\ lastStep' = "ev_check"
    /\ UNCHANGED <<connection_attempts, shutdown_requested, now, clientVars,
                   event, event_data, delivered_at, sleep_until, histVars, sd_at, slept_through, processed,
                   response_open,
                   asmVars,
                   statVars,
                   connection_id,
                   probe_session>>

EvShutdown ==
    /\ pc = "ev_shutdown"
    /\ IF should_shutdown
       THEN pc' = "done" /\ lastStep' = "shutdown_ev"
       ELSE pc' = "ev_stale" /\ lastStep' = "ev_check"
    /\ UNCHANGED <<connection_attempts, shutdown_requested, now, clientVars,
                   event, event_data, delivered_at, sleep_until, histVars, sd_at, slept_through, processed,
                   response_open,
                   asmVars,
                   statVars,
                   connection_id,
                   probe_session>>

(* A staleness check that reports the stale connection and goes on with    *)
(* the event instead of leaving the for loop.                              *)
EvStaleNoBreak ==
    /\ pc = "ev_stale"
    /\ pc' = "ev_health"
    /\ lastStep' = IF is_connection_stale THEN "stale" ELSE "not_stale"
    /\ delivered_at' = NoTime
    /\ UNCHANGED <<connection_attempts, shutdown_requested, now, clientVars,
                   event, event_data, sleep_until, histVars, sd_at,
                   slept_through, processed, response_open, asmVars, statVars,
                   connection_id,
                   probe_session>>

EvStale ==
    /\ pc = "ev_stale"
    /\ IF is_connection_stale
       THEN /\ BackToTop("stale") /\ consec_bad' = 0
            /\ response_open' \in {FALSE, response_open}
       ELSE /\ pc' = "ev_health" /\ lastStep' = "not_stale"
            /\ delivered_at' = NoTime
            /\ UNCHANGED <<event, event_data, sleep_until, consec_bad,
                           leave_reason, delayed, response_open>>
    /\ UNCHANGED <<connection_attempts, shutdown_requested, now, clientVars,
                   consec_fails, sd_at, slept_through, processed,
                   asmVars,
                   statVars,
                   connection_id,
                   probe_session>>

(* needs_health_check is false: no probe. *)
EvNoProbe ==
    /\ pc = "ev_health"
    /\ ~needs_health_check
    /\ pc' = "ev_dispatch" /\ lastStep' = "no_probe"
    /\ UNCHANGED <<connection_attempts, shutdown_requested, now, clientVars,
                   event, event_data, delivered_at, sleep_until, histVars, sd_at, slept_through, processed,
                   response_open,
                   asmVars,
                   statVars,
                   connection_id,
                   probe_session>>

(* A probe sent through self.session, the session of the stream. *)
EvProbeOKOnMainSession ==
    /\ pc = "ev_health"
    /\ needs_health_check
    /\ last_health_check' = now
    /\ pc' = "ev_dispatch" /\ lastStep' = "probe_ok"
    /\ probe_session' = MainSession
    /\ UNCHANGED <<connection_attempts, shutdown_requested, now, last_data_time,
                   connected, event, event_data, delivered_at, sleep_until,
                   histVars, sd_at, slept_through, processed, response_open,
                   asmVars, statVars, connection_id>>

(* A probe that is sent whether or not needs_health_check says it is due. *)
EvProbeOKAlways ==
    /\ pc = "ev_health"
    /\ last_health_check' = now
    /\ pc' = "ev_dispatch" /\ lastStep' = "probe_ok"
    /\ probe_session' = HealthSession
    /\ UNCHANGED <<connection_attempts, shutdown_requested, now, last_data_time,
                   connected, event, event_data, delivered_at, sleep_until,
                   histVars, sd_at, slept_through, processed, response_open,
                   asmVars, statVars, connection_id>>

(* perform_health_check succeeded. *)
EvProbeOK ==
    /\ pc = "ev_health"
    /\ needs_health_check
    /\ last_health_check' = now
    /\ pc' = "ev_dispatch" /\ lastStep' = "probe_ok"
    /\ probe_session' = HealthSession
    /\ UNCHANGED <<connection_attempts, shutdown_requested, now, last_data_time,
                   connected, event, event_data, delivered_at, sleep_until, histVars, sd_at, slept_through, processed,
                   response_open,
                   asmVars,
                   statVars,
                   connection_id>>

(* perform_health_check failed: break. *)
EvProbeFailStampsTime ==
    /\ pc = "ev_health"
    /\ needs_health_check
    /\ BackToTop("probe_fail")
    /\ consec_bad' = 0
    /\ last_health_check' = now
    /\ response_open' \in {FALSE, response_open}
    /\ probe_session' = HealthSession
    /\ UNCHANGED <<connection_attempts, shutdown_requested, now, last_data_time,
                   connected,
                   consec_fails, sd_at, slept_through, processed,
                   asmVars,
                   statVars,
                   connection_id>>

EvProbeFail ==
    /\ pc = "ev_health"
    /\ needs_health_check
    /\ BackToTop("probe_fail")
    /\ consec_bad' = 0
    /\ response_open' \in {FALSE, response_open}
    /\ probe_session' = HealthSession
    /\ UNCHANGED <<connection_attempts, shutdown_requested, now, clientVars,
                   consec_fails, sd_at, slept_through, processed,
                   asmVars,
                   statVars,
                   connection_id>>

(* handle_sse_event whose update_data_time writes the time the client was  *)
(* constructed instead of the current time.                                *)
handle_sse_eventStartStamp(failed) ==
    /\ last_data_time' = 1
    /\ lastStep' = IF event = "ping" THEN "dispatch_ping"
                   ELSE IF failed \/ (event = "connected" /\ event_data = NotDict)
                        THEN "dispatch_err" ELSE "dispatch"
    /\ connection_id' = IF event = "connected" /\ event_data # NotDict
                        THEN event_data ELSE connection_id
    /\ IF event \in {"connected", "ping"}
       THEN UNCHANGED statVars
       ELSE /\ total_events' = total_events + 1
            /\ event_counts' = [event_counts EXCEPT ![event] = @ + 1]
            /\ saved' \in {saved} \cup (IF failed THEN {} ELSE {saved + 1})

(* handle_sse_event without the connected branch: the event goes to the   *)
(* statistics like any other and its id is not stored.                     *)
handle_sse_eventCountsConnected(failed) ==
    /\ last_data_time' = now
    /\ lastStep' = IF event = "ping" THEN "dispatch_ping"
                   ELSE IF failed THEN "dispatch_err" ELSE "dispatch"
    /\ connection_id' = connection_id
    /\ IF event = "ping"
       THEN UNCHANGED statVars
       ELSE /\ total_events' = total_events + 1
            /\ event_counts' = [event_counts EXCEPT ![event] = @ + 1]
            /\ saved' \in {saved} \cup (IF failed THEN {} ELSE {saved + 1})

(* handle_sse_event with the ping branch falling through to the statistics. *)
handle_sse_eventCountsPing(failed) ==
    /\ last_data_time' = now
    /\ lastStep' = IF event = "ping" THEN "dispatch_ping"
                   ELSE IF failed \/ (event = "connected" /\ event_data = NotDict)
                        THEN "dispatch_err" ELSE "dispatch"
    /\ connection_id' = IF event = "connected" /\ event_data # NotDict
                        THEN event_data ELSE connection_id
    /\ IF event = "connected"
       THEN UNCHANGED statVars
       ELSE /\ total_events' = total_events + 1
            /\ event_counts' = [event_counts EXCEPT ![event] = @ + 1]
            /\ saved' \in {saved} \cup (IF failed THEN {} ELSE {saved + 1})

(* handle_sse_event for a named event; its own try/except keeps every     *)
(* error inside, after update_data_time has run.  `failed` is an exception *)
(* in the branch taken (data.get on a non-dict, format_raw_data,           *)
(* format_event): what follows it in the branch, save_event, is skipped.   *)
(* save_event appends a record unless there is no file manager, the data   *)
(* is empty or the write fails.  The ping branch returns at once.          *)
handle_sse_event(failed) ==
    /\ last_data_time' = now
    /\ lastStep' = IF event = "ping" THEN "dispatch_ping"
                   ELSE IF failed \/ (event = "connected" /\ event_data = NotDict)
                        THEN "dispatch_err" ELSE "dispatch"
    /\ connection_id' = IF event = "connected" /\ event_data # NotDict
                        THEN event_data ELSE connection_id
    /\ IF event \in {"connected", "ping"}
       THEN UNCHANGED statVars
       ELSE /\ total_events' = total_events + 1
            /\ event_counts' = [event_counts EXCEPT ![event] = @ + 1]
            /\ saved' \in {saved} \cup (IF failed THEN {} ELSE {saved + 1})

EvDispatchRaises ==
    /\ pc = "ev_dispatch"
    /\ IF event # ""
       THEN \E failed \in BOOLEAN :
               /\ handle_sse_event(failed)
               /\ pc' = IF failed /\ event # "ping" THEN "done" ELSE "listen"
       ELSE /\ lastStep' = "skip" /\ pc' = "listen"
            /\ UNCHANGED <<last_data_time, statVars, connection_id>>
    /\ event' = NoEvent /\ event_data' = NoId
    /\ delivered_at' = NoTime
    /\ processed' = TRUE
    /\ UNCHANGED <<connection_attempts, shutdown_requested, now,
                   last_health_check, connected, sleep_until, histVars, sd_at,
                   slept_through,
                   response_open,
                   asmVars,
                   probe_session>>

(* The dispatch without the `if event_name:` guard. *)
EvDispatchUnguarded ==
    /\ pc = "ev_dispatch"
    /\ \E failed \in BOOLEAN : handle_sse_event(failed)
    /\ pc' = "listen"
    /\ event' = NoEvent /\ event_data' = NoId
    /\ delivered_at' = NoTime
    /\ processed' = TRUE
    /\ UNCHANGED <<connection_attempts, shutdown_requested, now,
                   last_health_check, connected, sleep_until, histVars, sd_at,
                   slept_through, response_open, asmVars,
                   probe_session>>

EvDispatch ==
    /\ pc = "ev_dispatch"
    /\ IF event # ""
       THEN \E failed \in BOOLEAN : handle_sse_event(failed)
       ELSE lastStep' = "skip" /\ UNCHANGED <<last_data_time, statVars, connection_id>>
    /\ pc' = "listen"
    /\ event' = NoEvent /\ event_data' = NoId
    /\ delivered_at' = NoTime
    /\ processed' = TRUE
    /\ UNCHANGED <<connection_attempts, shutdown_requested, now,
                   last_health_check, connected, sleep_until, histVars, sd_at,
                   slept_through,
                   response_open,
                   asmVars,
                   probe_session>>

(***************************************************************************)
(* Environment: the clock and the shutdown signal                          *)
(***************************************************************************)
Running == pc \notin {"done", "aborted"}

Tick ==
    /\ Running
    /\ now < MaxTime
    /\ now' = now + 1
    /\ UNCHANGED <<pc, connection_attempts, shutdown_requested, clientVars,
                   event, event_data, delivered_at, sleep_until, lastStep, histVars, sd_at, slept_through, processed,
                   response_open,
                   asmVars,
                   statVars,
                   connection_id,
                   probe_session>>

(* GracefulShutdown._signal_handler *)
Signal ==
    /\ Running
    /\ ~shutdown_requested
    /\ shutdown_requested' = TRUE
    /\ sd_at' = IF pc = "sleep" /\ now < sleep_until THEN "sleep"
                ELSE IF pc = "listen" THEN "listen"
                ELSE "other"
    /\ UNCHANGED <<pc, connection_attempts, now, clientVars, event, event_data, delivered_at, sleep_until,
                   lastStep, histVars, slept_through, processed,
                   response_open,
                   asmVars,
                   statVars,
                   connection_id,
                   probe_session>>

(***************************************************************************)
(* SSEClient.parse_sse_line and SSEClient.listen_stream                    *)
(*                                                                         *)
(* A line is a sequence of characters. The field prefixes are written as   *)
(* one character each: "E" is `event: `, "D" is `data: `, "I" is `id: `,   *)
(* "R" is the prefix of a field the client does not know (`retry: `), ":"  *)
(* starts a comment; " ", "a" and "1" are the characters of a value.       *)
(* A value is JSON when it is a number: a non-empty run of "1".            *)
(***************************************************************************)
ValueChars == {" ", "a", "1"}

(* str.strip() *)
RECURSIVE StripLeft(_)
StripLeft(s) ==
    IF s # <<>> /\ Head(s) = " " THEN StripLeft(Tail(s)) ELSE s

RECURSIVE StripRight(_)
StripRight(s) ==
    IF s # <<>> /\ s[Len(s)] = " "
    THEN StripRight(SubSeq(s, 1, Len(s) - 1))
    ELSE s

Strip(s) == StripRight(StripLeft(s))

(* json.loads(data_str) returns, instead of raising JSONDecodeError *)
IsJson(s) == s # <<>> /\ \A i \in 1..Len(s) : s[i] = "1"

JsonValue(s) == [kind |-> "json", s |-> s]
TextValue(s) == [kind |-> "text", s |-> s]

NoToken == [type |-> "none"]

(* The except branch of json.loads drops the line. *)
parse_sse_lineDropsText(line) ==
    IF line = <<>> \/ Head(line) = ":"
    THEN NoToken
    ELSE IF Head(line) = "E"
    THEN [type |-> "event", event |-> Strip(Tail(line))]
    ELSE IF Head(line) = "D"
    THEN LET data_str == Strip(Tail(line))
         IN  IF IsJson(data_str)
             THEN [type |-> "data", data |-> JsonValue(data_str)]
             ELSE NoToken
    ELSE IF Head(line) = "I"
    THEN [type |-> "id", id |-> Strip(Tail(line))]
    ELSE NoToken

parse_sse_line(line) ==
    IF line = <<>> \/ Head(line) = ":"
    THEN NoToken
    ELSE IF Head(line) = "E"
    THEN [type |-> "event", event |-> Strip(Tail(line))]
    ELSE IF Head(line) = "D"
    THEN LET data_str == Strip(Tail(line))
         IN  IF IsJson(data_str)
             THEN [type |-> "data", data |-> JsonValue(data_str)]
             ELSE [type |-> "data", data |-> TextValue(data_str)]
    ELSE IF Head(line) = "I"
    THEN [type |-> "id", id |-> Strip(Tail(line))]
    ELSE NoToken

(* current_event = {'event': parsed['event']} *)
NewEvent(name) == [NoCurrent EXCEPT !.active = TRUE, !.event = name]

(* current_event['data'] = parsed['data'] *)
SetDataKeepFirst(cur, d) ==
    IF cur.has_data THEN cur ELSE [cur EXCEPT !.has_data = TRUE, !.data = d]

SetData(cur, d) == [cur EXCEPT !.has_data = TRUE, !.data = d]

(* current_event['id'] = parsed['id'] *)
SetId(cur, i) == [cur EXCEPT !.has_id = TRUE, !.id = i]

(* One iteration of `for line in response.iter_lines(...)`. *)
(* listen_stream that yields at a blank line without setting current_event *)
(* back to None.                                                           *)
ReadLineNoReset ==
    /\ idx < Len(lines)
    /\ idx' = idx + 1
    /\ LET line == lines[idx + 1]
           parsed == parse_sse_line(line)
       IN  IF parsed.type = "none"
           THEN IF current_event.active
                THEN /\ emitted' = Append(emitted, current_event)
                     /\ emitted_from' = Append(emitted_from, cur_start)
                     /\ UNCHANGED <<current_event, cur_start>>
                ELSE UNCHANGED <<emitted, emitted_from, current_event, cur_start>>
           ELSE /\ UNCHANGED <<emitted, emitted_from>>
                /\ IF parsed.type = "event"
                   THEN /\ current_event' = NewEvent(parsed.event)
                        /\ cur_start' = idx + 1
                   ELSE /\ UNCHANGED cur_start
                        /\ IF parsed.type = "data" /\ current_event.active
                           THEN current_event' = SetData(current_event, parsed.data)
                           ELSE IF parsed.type = "id" /\ current_event.active
                           THEN current_event' = SetId(current_event, parsed.id)
                           ELSE UNCHANGED current_event
    /\ UNCHANGED <<lines, stream_start, ctrlVars>>

(* listen_stream that lets a data: or id: line without an event in        *)
(* progress start an event of its own.                                     *)
ReadLineKeepsOrphans ==
    /\ idx < Len(lines)
    /\ idx' = idx + 1
    /\ LET line == lines[idx + 1]
           parsed == parse_sse_line(line)
           cur == IF current_event.active THEN current_event ELSE NewEvent(<<>>)
       IN  IF parsed.type = "none"
           THEN IF current_event.active
                THEN /\ emitted' = Append(emitted, current_event)
                     /\ emitted_from' = Append(emitted_from, cur_start)
                     /\ current_event' = NoCurrent
                     /\ cur_start' = 0
                ELSE UNCHANGED <<emitted, emitted_from, current_event, cur_start>>
           ELSE /\ UNCHANGED <<emitted, emitted_from>>
                /\ IF parsed.type = "event"
                   THEN /\ current_event' = NewEvent(parsed.event)
                        /\ cur_start' = idx + 1
                   ELSE /\ UNCHANGED cur_start
                        /\ IF parsed.type = "data"
                           THEN current_event' = SetData(cur, parsed.data)
                           ELSE current_event' = SetId(cur, parsed.id)
    /\ UNCHANGED <<lines, stream_start, ctrlVars>>

ReadLine ==
    /\ idx < Len(lines)
    /\ idx' = idx + 1
    /\ LET line == lines[idx + 1]
           parsed == parse_sse_line(line)
       IN  IF parsed.type = "none"
           THEN IF current_event.active
                THEN /\ emitted' = Append(emitted, current_event)
                     /\ emitted_from' = Append(emitted_from, cur_start)
                     /\ current_event' = NoCurrent
                     /\ cur_start' = 0
                ELSE UNCHANGED <<emitted, emitted_from, current_event, cur_start>>
           ELSE /\ UNCHANGED <<emitted, emitted_from>>
                /\ IF parsed.type = "event"
                   THEN /\ current_event' = NewEvent(parsed.event)
                        /\ cur_start' = idx + 1
                   ELSE /\ UNCHANGED cur_start
                        /\ IF parsed.type = "data" /\ current_event.active
                           THEN current_event' = SetData(current_event, parsed.data)
                           ELSE IF parsed.type = "id" /\ current_event.active
                           THEN current_event' = SetId(current_event, parsed.id)
                           ELSE UNCHANGED current_event
    /\ UNCHANGED <<lines, stream_start, ctrlVars>>

(* The lines the server sends. *)
MaxLines == 4
MaxValueLen == 3

BlankLine == <<>>
CommentLine == <<":", "a">>
UnknownLine == <<"R", "1">>

LineUniverse ==
    { BlankLine, CommentLine, UnknownLine,
      <<"E", "a">>, <<"E", " ", "1", " ">>,
      <<"D", "1">>, <<"D", " ", "a", " ">>, <<"D">>,
      <<"I", "a">>, <<"I", " ", "1">> }

SeqsUpTo(S, n) == UNION { [1..k -> S] : k \in 0..n }

(* Every data: line with a value of up to MaxValueLen characters. *)
DataLines == { <<"D">> \o v : v \in SeqsUpTo(ValueChars, MaxValueLen) }

AsmInit ==
    /\ CtrlInit
    /\ idx = 0
    /\ current_event = NoCurrent
    /\ emitted = <<>>
    /\ cur_start = 0
    /\ emitted_from = <<>>
    /\ stream_start = 0
    /\ \/ lines \in SeqsUpTo(LineUniverse, MaxLines)
       \/ \E d \in DataLines : lines = << <<"E", "a">>, d, BlankLine >>

(* The for loop over iter_lines ends: the response is exhausted after the  *)
(* lines read so far, listen_stream returns and its local current_event is *)
(* gone; the lines that follow come from the response of the next          *)
(* connect_stream, read by a new call that starts with current_event None. *)
ListenReturnsKeepsEvent ==
    /\ idx > stream_start
    /\ stream_start' = idx
    /\ UNCHANGED <<lines, idx, current_event, cur_start, emitted, emitted_from,
                   ctrlVars>>

ListenReturns ==
    /\ idx > stream_start
    /\ stream_start' = idx
    /\ current_event' = NoCurrent
    /\ cur_start' = 0
    /\ UNCHANGED <<lines, idx, emitted, emitted_from, ctrlVars>>

ctrlVarsButConnected == <<pc, connection_attempts, shutdown_requested, now,
                      last_data_time, last_health_check,
                      event, event_data, delivered_at,
                      sleep_until, lastStep, consec_fails,
                      consec_bad, sd_at, leave_reason,
                      delayed, slept_through, processed,
                      response_open, total_events,
                      event_counts, saved, connection_id,
                      probe_session>>

(* iter_lines raises: the except branch clears `connected` and the         *)
(* generator ends the same way.                                            *)
ListenRaises ==
    /\ idx > stream_start
    /\ stream_start' = idx
    /\ connected' = FALSE
    /\ current_event' = NoCurrent
    /\ cur_start' = 0
    /\ UNCHANGED <<lines, idx, emitted, emitted_from, ctrlVarsButConnected>>

AsmNext == ReadLine

AsmSpec == AsmInit /\ [][AsmNext]_vars

(* listen_stream called once per connection, over the lines of one         *)
(* response after the other.                                               *)
StreamsNext ==
    \/ ReadLine
    \/ ListenReturns
    \/ ListenRaises

StreamsSpec == AsmInit /\ [][StreamsNext]_vars

(* The steps the controller takes by itself. *)
ControllerNext ==
    \/ CheckServerHealth
    \/ LoopTop
    \/ ConnectOK
    \/ ConnectFail
    \/ SleepDone
    \/ EvShutdown
    \/ EvStale
    \/ EvNoProbe
    \/ EvProbeOK
    \/ EvProbeFail
    \/ EvDispatch

(* What the stream does while the controller is blocked in the read. *)
StreamNext ==
    \/ Deliver
    \/ StreamEnd
    \/ StreamError

Next ==
    \/ ControllerNext
    \/ StreamNext
    \/ Tick
    \/ Signal

Spec == Init /\ [][Next]_vars

(* The controller is a running thread: it takes a step whenever it has    *)
(* one. Nothing obliges the server to send, close or fail, nor a signal to *)
(* arrive.                                                                 *)
FairSpec == Spec /\ WF_vars(ControllerNext)

TypeOK ==
    /\ pc \in {"start", "aborted", "top", "connect", "sleep", "listen",
               "ev_shutdown", "ev_stale", "ev_health", "ev_dispatch", "done"}
    /\ connection_attempts \in 0..(max_retries + 1)
    /\ shutdown_requested \in BOOLEAN
    /\ now \in 1..MaxTime
    /\ last_data_time \in 1..MaxTime
    /\ last_health_check \in 0..MaxTime
    /\ connected \in BOOLEAN
    /\ event \in EventNames \cup {NoEvent}
    /\ total_events \in 0..MaxEvents
    /\ event_counts \in [EventNames -> 0..MaxEvents]
    /\ saved \in 0..MaxEvents
    /\ connection_id \in ConnData \ {NotDict}
    /\ probe_session \in {NoSession, MainSession, HealthSession}
    /\ event_data \in ConnData
    /\ delivered_at \in 0..MaxTime
    /\ delivered_at # NoTime => event # NoEvent
    /\ event # "connected" => event_data = NoId


(***************************************************************************)
(* Properties                                                              *)
(***************************************************************************)

(* The ways the loop is left: line 492 (retries), 484 and 511 (shutdown). *)
ExitSteps == {"retries", "shutdown_top", "shutdown_ev"}

(* C1: max_retries connect_stream failures in a row end the loop on the    *)
(* max_retries-th failure, no fewer do, and nothing is attempted after the *)
(* loop was left.                                                          *)
C1_RetryExhaustion ==
    /\ [](consec_fails >= max_retries => pc = "done" /\ lastStep = "retries")
    /\ [](lastStep = "retries" => pc = "done" /\ consec_fails = max_retries)
    /\ [][pc = "done" => pc' = "done"]_vars

C1_Witness ==
    /\ pc = "done"
    /\ lastStep = "retries"
    /\ consec_fails = max_retries
    /\ leave_reason = "connect_fail"

(* C2: connection_attempts becomes 0 at every successful connect_stream,   *)
(* grows by exactly 1 at every failed one, and no other step changes it.   *)
C2_CounterSteps ==
    [][/\ (pc = "connect" /\ lastStep' = "connect_ok"
              => connection_attempts' = 0)
       /\ (pc = "connect" /\ lastStep' \in {"connect_fail", "retries"}
              => connection_attempts' = connection_attempts + 1)
       /\ (pc # "connect" => connection_attempts' = connection_attempts)]_vars

C2_Witness ==
    /\ lastStep = "connect_ok"
    /\ leave_reason = "connect_fail"
    /\ delayed
    /\ connection_attempts = 0

(* C3: a stream that has been silent for longer than stream_timeout is     *)
(* eventually abandoned, whatever the server does.                         *)
C3_SilentStreamAbandoned ==
    (pc = "listen" /\ is_connection_stale) ~> (pc # "listen")

(* C4 as stated: after staleness or a failed probe the next connect_stream *)
(* is made only after the reconnect delay was waited.                      *)
C4_DelayAfterAbandon ==
    (pc = "connect" /\ leave_reason \in {"stale", "probe_fail"}) => delayed

(* C4 amended: after staleness or a failed probe the controller is back at *)
(* connect_stream in the next iteration of the loop, and no reconnect      *)
(* delay was waited on the way.                                            *)
C4_NoDelayAfterAbandon ==
    (leave_reason \in {"stale", "probe_fail"})
        => (~delayed /\ pc # "sleep" /\ lastStep # "sleep_done")

C4_Witness ==
    /\ pc = "connect"
    /\ leave_reason \in {"stale", "probe_fail"}
    /\ ~delayed

(* C5: after a read error of the stream the next connect_stream is made    *)
(* only after the reconnect delay was waited.                              *)
C5_DelayAfterStreamError ==
    (pc = "connect" /\ leave_reason = "stream_error") => delayed

(* C6 as stated: connections that end in a failure (connect_stream failed, *)
(* or the open stream raised) end the loop once max_retries of them        *)
(* happened in a row.                                                      *)
C6_SharedCeiling ==
    consec_bad >= max_retries => pc = "done"

(* C6 amended: a read error of an open stream is not counted: the counter  *)
(* is the number of connect_stream failures since the last success, it is  *)
(* 0 when the stream raises, and the controller goes on to reconnect.      *)
C6_OnlyConnectFailuresCount ==
    /\ connection_attempts = consec_fails
    /\ (lastStep = "stream_error" => connection_attempts = 0 /\ pc = "top")

C6_Witness ==
    /\ consec_bad >= max_retries
    /\ lastStep = "stream_error"
    /\ pc = "top"

(* C7: when the flag is set while the loop waits for the next event, the   *)
(* controller is never again at connect_stream, at the staleness check, at *)
(* the probe or at the dispatch: the next event ends the loop undispatched. *)
C7_ShutdownBetweenEvents ==
    (shutdown_requested /\ sd_at = "listen")
        => /\ pc \in {"listen", "ev_shutdown", "top", "done"}
           /\ (pc = "done" => lastStep \in {"shutdown_ev", "shutdown_top"})
           /\ (pc = "ev_shutdown" => lastStep = "deliver")

C7_Witness ==
    /\ pc = "done"
    /\ sd_at = "listen"
    /\ processed
    /\ lastStep = "shutdown_ev"
    /\ event \in EventNames

(* C8: a reconnect delay during which the flag was set is never waited to  *)
(* its end.                                                                *)
C8_DelayCutShort == ~slept_through

(* C9: once the flag is set the controller always has a step of its own to *)
(* take until the loop is left: it waits neither for the stream nor for    *)
(* the clock.                                                              *)
C9_ShutdownNeedsNoInput ==
    (shutdown_requested /\ Running) => ENABLED ControllerNext

(* C10: the loop is left only by retry exhaustion or an observed shutdown  *)
(* request; staleness, a failed probe, a read error and the end of the     *)
(* stream lead to the loop top, a handler error to the next event; after   *)
(* the loop was left nothing happens.                                      *)
C10_OnlyTwoExits ==
    [][/\ (pc = "done" => pc' = "done")
       /\ (pc # "done" /\ pc' = "done"
              => /\ lastStep' \in ExitSteps
                 /\ (lastStep' = "retries" => connection_attempts' >= max_retries)
                 /\ (lastStep' # "retries" => shutdown_requested))
       /\ (lastStep' \in {"stale", "probe_fail", "stream_error", "stream_end"}
              /\ pc' # pc => pc' = "top")
       /\ (pc = "ev_dispatch" /\ pc' # pc => pc' = "listen")]_vars

C10_Witness ==
    /\ pc = "listen"
    /\ lastStep = "dispatch_err"
    /\ leave_reason = "probe_fail"
    /\ ~shutdown_requested


(* C11: whenever the controller is about to call connect_stream, the       *)
(* stream response it opened before has been closed or released.           *)
C11_OneStreamOpen == (pc = "connect") => ~response_open


(***************************************************************************)
(* Properties of parse_sse_line and listen_stream (AsmSpec)                *)
(***************************************************************************)
IsEventLine(l) == l # <<>> /\ Head(l) = "E"
IsDataLine(l) == l # <<>> /\ Head(l) = "D"
IsIdLine(l) == l # <<>> /\ Head(l) = "I"
IsComment(l) == l # <<>> /\ Head(l) = ":"
IsUnknownField(l) == l # <<>> /\ Head(l) \notin {"E", "D", "I", ":"}

(* One event: line, then data: and id: lines only, then a blank line. *)
WellFormedFrame(ls) ==
    /\ Len(ls) >= 2
    /\ IsEventLine(ls[1])
    /\ ls[Len(ls)] = BlankLine
    /\ \A k \in 2..(Len(ls) - 1) : IsDataLine(ls[k]) \/ IsIdLine(ls[k])

LastDataLine(ls) ==
    LET S == {k \in 1..Len(ls) : IsDataLine(ls[k])}
    IN  IF S = {} THEN 0 ELSE CHOOSE k \in S : \A m \in S : m <= k

LastIdLine(ls) ==
    LET S == {k \in 1..Len(ls) : IsIdLine(ls[k])}
    IN  IF S = {} THEN 0 ELSE CHOOSE k \in S : \A m \in S : m <= k

(* The value a data: line stands for. *)
DataValueOf(l) ==
    LET v == Strip(Tail(l))
    IN  IF IsJson(v) THEN JsonValue(v) ELSE TextValue(v)

(* The event a well-formed frame stands for. *)
ExpectedEvent(ls) ==
    LET d == LastDataLine(ls)
        i == LastIdLine(ls)
    IN  [active |-> TRUE,
         event |-> Strip(Tail(ls[1])),
         has_data |-> d # 0,
         data |-> IF d = 0 THEN NoData ELSE DataValueOf(ls[d]),
         has_id |-> i # 0,
         id |-> IF i = 0 THEN <<>> ELSE Strip(Tail(ls[i]))]

AllRead == idx = Len(lines)

(* C12: a well-formed frame read by an empty assembler yields exactly one  *)
(* event: the name of its event: line, the value of its last data: line    *)
(* and of its last id: line (absent when there is none).                   *)
C12_OneFrameOneEvent ==
    (AllRead /\ WellFormedFrame(lines))
        => /\ emitted = << ExpectedEvent(lines) >>
           /\ ~current_event.active

C12_Witness ==
    /\ AllRead
    /\ WellFormedFrame(lines)
    /\ Len(lines) = 4
    /\ IsDataLine(lines[2]) /\ IsDataLine(lines[3])
    /\ DataValueOf(lines[2]) # DataValueOf(lines[3])
    /\ Len(emitted) = 1
    /\ emitted[1].data = DataValueOf(lines[3])

(* C13: an event: line followed by another event: line with no blank line  *)
(* in between is never emitted.                                            *)
C13_UnterminatedDiscarded ==
    \A i \in 1..idx : \A j \in 1..idx :
        ( /\ i < j
          /\ IsEventLine(lines[i])
          /\ IsEventLine(lines[j])
          /\ \A k \in (i + 1)..(j - 1) : lines[k] # BlankLine )
        => \A n \in 1..Len(emitted_from) : emitted_from[n] # i

NotComment(l) == ~IsComment(l)
NotUnknownField(l) == ~IsUnknownField(l)

(* The lines lie inside one frame: an event: line first, a blank line last. *)
Framed(ls) ==
    /\ Len(ls) >= 2
    /\ IsEventLine(ls[1])
    /\ ls[Len(ls)] = BlankLine

(* C14: comment lines inside a frame do not change what is emitted.        *)
C14_CommentIsNoOp ==
    (AllRead /\ Framed(lines) /\ WellFormedFrame(SelectSeq(lines, NotComment)))
        => emitted = << ExpectedEvent(SelectSeq(lines, NotComment)) >>

(* C15: lines of an unknown field inside a frame do not change what is     *)
(* emitted.                                                                *)
C15_UnknownFieldIgnored ==
    (AllRead /\ Framed(lines)
        /\ WellFormedFrame(SelectSeq(lines, NotUnknownField)))
        => emitted = << ExpectedEvent(SelectSeq(lines, NotUnknownField)) >>

(* C16: reading a data: line whose value is not JSON emits nothing and     *)
(* stores {message: <the trimmed value>, is_text: true} as the data of the *)
(* event in progress; without an event in progress nothing changes.        *)
InvalidDataLine(l) == IsDataLine(l) /\ ~IsJson(Strip(Tail(l)))

C16_TextDataToken ==
    [][(idx < Len(lines) /\ InvalidDataLine(lines[idx + 1]))
          => /\ emitted' = emitted
             /\ current_event'.active = current_event.active
             /\ current_event'.event = current_event.event
             /\ current_event'.id = current_event.id
             /\ current_event.active
                   => /\ current_event'.has_data
                      /\ current_event'.data.kind = "text"
                      /\ current_event'.data.s = Strip(Tail(lines[idx + 1]))
             /\ ~current_event.active => current_event' = current_event]_vars

C16_Witness ==
    /\ idx = 2
    /\ InvalidDataLine(lines[2])
    /\ Strip(Tail(lines[2])) # Tail(lines[2])
    /\ Strip(Tail(lines[2])) # <<>>
    /\ current_event.active
    /\ current_event.data = TextValue(Strip(Tail(lines[2])))
    /\ emitted = <<>>


(***************************************************************************)
(* Properties of the liveness tracking (Spec)                              *)
(***************************************************************************)

(* C17 as stated: the first needs_health_check call on a new connection    *)
(* returns true.                                                           *)
C17_FirstCallTrue ==
    (pc = "ev_health" /\ ~processed) => needs_health_check

(* C17 amended: connect_stream starts the probe timer. last_health_check   *)
(* is written only by a successful connect_stream and a successful probe,  *)
(* both set it to the current time; needs_health_check is true exactly     *)
(* when more than health_check_interval has elapsed since then, so on the  *)
(* first call after a connect it is false unless that much time has passed *)
(* since the connect.                                                      *)
C17_TimerStartsAtConnect ==
    /\ [][last_health_check' # last_health_check
             => /\ last_health_check' = now
                /\ pc \in {"connect", "ev_health"}
                /\ lastStep' \in {"connect_ok", "probe_ok"}]_vars
    /\ [][pc = "connect" /\ pc' = "listen" => last_health_check' = now]_vars
    /\ [](pc = "ev_health"
             => /\ last_health_check # NoTime
                /\ needs_health_check
                      <=> (now - last_health_check >= health_check_interval + 1))
    /\ []((pc = "ev_health" /\ ~processed
              /\ now - last_data_time <= health_check_interval)
             => ~needs_health_check)

C17_Witness ==
    /\ pc = "ev_health"
    /\ ~processed
    /\ last_health_check = now
    /\ ~needs_health_check

(* C18: the staleness check abandons the stream exactly when more than     *)
(* stream_timeout has passed since last_data_time; at exactly              *)
(* stream_timeout it does not.                                             *)
C18_StaleStrictlyGreater ==
    [][(pc = "ev_stale" /\ pc' # pc)
          => /\ (pc' = "top" /\ lastStep' = "stale")
                   <=> (now - last_data_time >= stream_timeout + 1)
             /\ (now - last_data_time <= stream_timeout)
                   => (pc' = "ev_health" /\ lastStep' = "not_stale")]_vars

C18_Witness ==
    /\ pc = "ev_health"
    /\ lastStep = "not_stale"
    /\ now - last_data_time = stream_timeout

(* C19: a successful probe sets last_health_check to the current time and  *)
(* the loop goes on; a failed probe leaves last_health_check,              *)
(* last_data_time and connected as they were.                              *)
C19_ProbeEffects ==
    [][(pc = "ev_health" /\ pc' # pc)
          => /\ lastStep' = "probe_ok"
                   => /\ last_health_check' = now
                      /\ pc' = "ev_dispatch"
                      /\ UNCHANGED <<last_data_time, connected>>
             /\ lastStep' = "probe_fail"
                   => /\ pc' = "top"
                      /\ UNCHANGED <<last_health_check, last_data_time, connected>>
             /\ lastStep' \in {"probe_ok", "probe_fail", "no_probe"}
             /\ lastStep' = "no_probe" <=> ~needs_health_check]_vars

C19_Witness ==
    /\ pc = "top"
    /\ lastStep = "probe_fail"
    /\ connected
    /\ last_health_check # NoTime
    /\ now - last_health_check > health_check_interval

(* C20: dispatching a ping event sets last_data_time to the current time   *)
(* and calls neither StatsManager.add_event nor the formatter nor           *)
(* FileManager.save_event: total_events, event_counts and the output file   *)
(* are left as they were, and no ping is ever counted.                      *)
C20_PingNotCounted ==
    /\ [][pc = "ev_dispatch" /\ event = "ping" /\ pc' # "ev_dispatch"
            => /\ last_data_time' = now
               /\ lastStep' = "dispatch_ping"
               /\ UNCHANGED statVars]_vars
    /\ [](event_counts["ping"] = 0)

C20_Witness ==
    /\ lastStep = "dispatch_ping"
    /\ last_data_time = now
    /\ last_data_time > last_health_check
    /\ total_events = MaxEvents
    /\ event_counts["ping"] = 0

(* C21: dispatching a connected event stores the connection_id its data    *)
(* carries (None when the data has no such entry) on the SSE client and     *)
(* changes neither total_events nor event_counts nor the output file;       *)
(* dispatching an event named neither connected nor ping adds exactly 1 to  *)
(* total_events and to the count of its name and leaves the other counts.   *)
C21_ConnectedAndCounted ==
    /\ [][pc = "ev_dispatch" /\ event = "connected" /\ pc' # "ev_dispatch"
            => /\ UNCHANGED statVars
               /\ event_data # NotDict => connection_id' = event_data]_vars
    /\ [][pc = "ev_dispatch" /\ event \in CountedNames /\ pc' # "ev_dispatch"
            => /\ total_events' = total_events + 1
               /\ event_counts' = [event_counts EXCEPT ![event] = @ + 1]]_vars
    /\ [](event_counts["connected"] = 0)

C21_Witness ==
    /\ lastStep = "dispatch"
    /\ connection_id = "c1"
    /\ total_events = 1
    /\ event_counts["trade"] = 1
    /\ event_counts["connected"] = 0
    /\ saved = 0

(* C22: when is_connection_stale is evaluated for a delivered event,       *)
(* last_data_time has already been set for that event: it is not older      *)
(* than the time the event arrived.                                         *)
C22_DataTimeBeforeStaleCheck ==
    pc = "ev_stale" => last_data_time >= delivered_at

(* C23: for an event on which the connection is not stale, a probe is      *)
(* performed only if needs_health_check is true; a failed probe abandons    *)
(* the stream and sends the controller back to connect; after a successful  *)
(* probe or without a probe the event goes on to the dispatch, where a      *)
(* named event is handed to handle_sse_event, and the loop then waits for   *)
(* the next event of the same stream.                                       *)
C23_ProbeThenDispatch ==
    /\ [][pc = "ev_health" /\ pc' # "ev_health"
            => /\ lastStep' \in {"probe_ok", "probe_fail", "no_probe"}
               /\ (lastStep' = "no_probe") = ~needs_health_check
               /\ lastStep' = "probe_fail"
                     => pc' = "top" /\ leave_reason' = "probe_fail"
                        /\ event' = NoEvent
               /\ lastStep' # "probe_fail"
                     => pc' = "ev_dispatch" /\ UNCHANGED <<event, event_data>>]_vars
    /\ [][pc = "ev_dispatch" /\ pc' # "ev_dispatch"
            => /\ pc' = "listen"
               /\ UNCHANGED <<connected, connection_attempts, leave_reason>>
               /\ event # "" => /\ last_data_time' = now
                                /\ lastStep' \in {"dispatch", "dispatch_ping",
                                                  "dispatch_err"}]_vars
    /\ [][pc = "top" /\ lastStep = "probe_fail" /\ pc' # "top"
            => pc' = IF shutdown_requested THEN "done" ELSE "connect"]_vars

C23_Witness ==
    /\ pc = "ev_dispatch"
    /\ lastStep = "probe_ok"
    /\ event = "trade"
    /\ last_health_check = now
    /\ last_data_time < now

(* C24: the step that detects staleness or a failed probe leaves the for   *)
(* loop without handing the event to handle_sse_event (statistics, output  *)
(* file, connection_id and last_data_time stay as they were, the event is   *)
(* dropped); from there no event is processed until connect_stream has      *)
(* opened a new stream; and nothing but the dispatch of an event in the     *)
(* loop body ever changes statistics or output file.                        *)
C24_NoDispatchAfterAbandon ==
    /\ [][((pc = "ev_stale" /\ is_connection_stale /\ pc' # pc)
           \/ (pc = "ev_health" /\ lastStep' = "probe_fail"))
            => /\ pc' = "top"
               /\ lastStep' \in {"stale", "probe_fail"}
               /\ event' = NoEvent
               /\ UNCHANGED <<statVars, connection_id, last_data_time>>]_vars
    /\ [][(pc \in {"top", "connect", "sleep"})
            => (pc' \in {"top", "connect", "sleep", "done"}
                \/ (lastStep' = "connect_ok" /\ pc' = "listen"
                    /\ event' = NoEvent))]_vars
    /\ [][pc # "ev_dispatch" => UNCHANGED <<statVars, connection_id>>]_vars

C24_Witness ==
    /\ pc = "top"
    /\ lastStep = "stale"
    /\ processed
    /\ total_events = 1

(***************************************************************************)
(* Properties of the event assembler, continued (AsmSpec)                  *)
(***************************************************************************)

(* The lines from..to all are data: or id: lines. *)
OnlyFields(from, to) ==
    \A m \in from..to : IsDataLine(lines[m]) \/ IsIdLine(lines[m])

(* C25: a data: or id: line read while no event is in progress changes     *)
(* nothing; every emitted event goes back to an event: line of its own and  *)
(* bears its name; and the data and the id of an emitted event are values   *)
(* of lines that follow that event: line with only data: and id: lines in   *)
(* between, never of a line read while no event was in progress.            *)
C25_OrphanFieldsDropped ==
    /\ [][(idx < Len(lines) /\ ~current_event.active
            /\ (IsDataLine(lines[idx + 1]) \/ IsIdLine(lines[idx + 1])))
          => UNCHANGED <<current_event, emitted, emitted_from, cur_start>>]_vars
    /\ [](/\ Len(emitted_from) = Len(emitted)
          /\ \A n \in 1..Len(emitted) :
                LET e == emitted_from[n]
                IN  /\ e \in 1..idx
                    /\ IsEventLine(lines[e])
                    /\ emitted[n].event = Strip(Tail(lines[e]))
                    /\ emitted[n].has_data
                          => \E k \in (e + 1)..idx :
                                /\ IsDataLine(lines[k])
                                /\ OnlyFields(e + 1, k)
                                /\ emitted[n].data = DataValueOf(lines[k])
                    /\ emitted[n].has_id
                          => \E k \in (e + 1)..idx :
                                /\ IsIdLine(lines[k])
                                /\ OnlyFields(e + 1, k)
                                /\ emitted[n].id = Strip(Tail(lines[k]))
                    /\ \A m \in 1..Len(emitted) : m # n => emitted_from[m] # e)

C25_Witness ==
    /\ AllRead
    /\ Len(lines) = 4
    /\ IsDataLine(lines[1])
    /\ IsIdLine(lines[2])
    /\ IsEventLine(lines[3])
    /\ lines[4] = BlankLine
    /\ Len(emitted) = 1
    /\ ~emitted[1].has_data
    /\ ~emitted[1].has_id

(* The number of event: lines among the lines read so far. *)
EventLinesRead == Cardinality({k \in 1..idx : IsEventLine(lines[k])})

(* C26: reading a blank line with an event in progress emits that event    *)
(* and leaves the assembler empty; reading one with no event in progress    *)
(* changes nothing; no event: line is behind two emitted events, and the    *)
(* emitted events are never more than the event: lines read.                *)
C26_BlankLineFlushesOnce ==
    /\ [][(idx < Len(lines) /\ lines[idx + 1] = BlankLine)
          => IF current_event.active
             THEN /\ emitted' = Append(emitted, current_event)
                  /\ current_event' = NoCurrent
             ELSE UNCHANGED <<emitted, current_event>>]_vars
    /\ [](/\ Len(emitted) <= EventLinesRead
          /\ \A m \in 1..Len(emitted_from) : \A n \in 1..Len(emitted_from) :
                emitted_from[m] = emitted_from[n] => m = n)

C26_Witness ==
    /\ AllRead
    /\ Len(lines) = 4
    /\ IsEventLine(lines[1])
    /\ lines[2] = BlankLine
    /\ lines[3] = BlankLine
    /\ IsEventLine(lines[4])
    /\ Len(emitted) = 1
    /\ EventLinesRead = 2
    /\ current_event.active

(***************************************************************************)
(* Properties of the dispatch, continued (Spec)                            *)
(***************************************************************************)

(* C27: an event with an empty name that reaches the dispatch is not       *)
(* handed to handle_sse_event: statistics, output file, connection_id and   *)
(* last_data_time are unchanged and the loop goes on to the next event.     *)
C27_EmptyNameSkipped ==
    [][(pc = "ev_dispatch" /\ event = "" /\ pc' # "ev_dispatch")
          => /\ lastStep' = "skip"
             /\ pc' = "listen"
             /\ UNCHANGED <<statVars, connection_id, last_data_time>>]_vars

C27_Witness ==
    /\ pc = "listen"
    /\ lastStep = "skip"
    /\ processed
    /\ last_data_time < now
    /\ total_events = 0

(* C28: a successful connect_stream sets connected and sets last_data_time *)
(* and last_health_check to the current time; a failed one clears           *)
(* connected, leaves both times unchanged, opens no stream and is one       *)
(* attempt: the controller counts one failure and either waits or gives up. *)
C28_ConnectEffects ==
    [][(pc = "connect" /\ pc' # "connect")
          => \/ /\ lastStep' = "connect_ok"
                /\ pc' = "listen"
                /\ connected'
                /\ last_data_time' = now
                /\ last_health_check' = now
                /\ response_open'
             \/ /\ lastStep' \in {"connect_fail", "retries"}
                /\ pc' \in {"sleep", "done"}
                /\ ~connected'
                /\ UNCHANGED <<last_data_time, last_health_check>>
                /\ response_open' => response_open
                /\ connection_attempts' = connection_attempts + 1
                /\ consec_fails' = Sat(consec_fails + 1)]_vars

C28_Witness ==
    /\ lastStep = "connect_fail"
    /\ ~connected
    /\ last_health_check # NoTime
    /\ last_health_check < now
    /\ last_data_time < now
    /\ connection_attempts = 1

(* C29: the clock never runs backwards, and every step leaves              *)
(* last_data_time unchanged or sets it to the current time; so it never     *)
(* decreases and never lies in the future.                                  *)
C29_DataTimeMonotone ==
    /\ [][now' >= now]_vars
    /\ [][last_data_time' = last_data_time \/ last_data_time' = now]_vars
    /\ [][last_data_time' >= last_data_time]_vars
    /\ [](last_data_time <= now)

C29_Witness ==
    /\ connected
    /\ lastStep = "dispatch"
    /\ last_data_time = now
    /\ last_health_check # NoTime
    /\ last_health_check < last_data_time

(* C30: a health probe made in the loop body, whatever its outcome, goes   *)
(* through a session of its own and not through the session that carries    *)
(* the stream.                                                              *)
C30_ProbeOnOwnSession ==
    lastStep \in {"probe_ok", "probe_fail"}
        => probe_session = HealthSession /\ probe_session # StreamSession

C30_Witness ==
    /\ pc = "ev_dispatch"
    /\ lastStep = "probe_ok"
    /\ response_open
    /\ connected
    /\ probe_session = HealthSession

(***************************************************************************)
(* Properties of listen_stream across connections (StreamsSpec)            *)
(***************************************************************************)

(* C31: when a response ends or raises, listen_stream yields nothing more:  *)
(* an event in progress is not emitted, and the next call starts with no    *)
(* event in progress. So the event in progress always was started by an     *)
(* event: line of the response being read, and every emitted event is       *)
(* flushed on the response its event: line came from.                       *)
C31_InProgressDroppedAtEnd ==
    /\ [][stream_start' # stream_start
            => /\ emitted' = emitted
               /\ emitted_from' = emitted_from
               /\ ~current_event'.active]_vars
    /\ [](current_event.active => cur_start > stream_start)
    /\ [][emitted' # emitted
            => /\ cur_start > stream_start
               /\ emitted_from' = Append(emitted_from, cur_start)
               /\ emitted' = Append(emitted, current_event)]_vars

C31_Witness ==
    /\ Len(lines) = 4
    /\ IsEventLine(lines[1])
    /\ IsDataLine(lines[2])
    /\ lines[3] = BlankLine
    /\ lines[4] = BlankLine
    /\ stream_start = 2
    /\ AllRead
    /\ emitted = <<>>

(***************************************************************************)
(* Properties of the retry counter and of the exits (Spec)                 *)
(***************************************************************************)

(* C32: after an established stream ended or raised, the next connect      *)
(* attempt starts with connection_attempts = 0 and may succeed again; the   *)
(* loop is left only on a shutdown request or after max_retries connect     *)
(* failures in a row, so streams that end at once never end the loop.       *)
C32_StreamEndNotCounted ==
    /\ (pc = "connect" /\ leave_reason \in {"stream_end", "stream_error"})
          => connection_attempts = 0 /\ ENABLED ConnectOK
    /\ lastStep \in {"stream_end", "stream_error"}
          => connection_attempts = 0 /\ pc = "top"
    /\ pc = "done" => shutdown_requested \/ consec_fails = max_retries

C32_Witness ==
    /\ pc = "connect"
    /\ leave_reason = "stream_end"
    /\ connection_attempts = 0
    /\ ~processed
    /\ connected
    /\ now = 1

(* C33: with max_retries >= 1, connection_attempts stays within             *)
(* 0..max_retries, a connect attempt is started only below the ceiling, and *)
(* the connect failures since the last success (or the start) never exceed  *)
(* max_retries.                                                             *)
C33_CounterWithinCeiling ==
    max_retries >= 1
        => /\ connection_attempts \in 0..max_retries
           /\ consec_fails \in 0..max_retries
           /\ pc = "connect" => connection_attempts < max_retries
           /\ connection_attempts = max_retries => pc = "done"

C33_Witness ==
    /\ pc = "connect"
    /\ connection_attempts = max_retries - 1
    /\ consec_fails = max_retries - 1
    /\ last_health_check # NoTime

(* C34: a failed initial check_server_health ends run_monitor at once:     *)
(* the controller stops there for good, no connect_stream was or will be    *)
(* attempted, no delay was started and the retry counter was never used.    *)
C34_HealthFailReturns ==
    /\ [][(lastStep' = "health_fail" /\ lastStep # "health_fail")
            => pc = "start" /\ pc' = "aborted"]_vars
    /\ [](pc = "aborted"
            => /\ lastStep = "health_fail"
               /\ connection_attempts = 0
               /\ consec_fails = 0
               /\ ~connected
               /\ ~response_open
               /\ last_health_check = NoTime
               /\ sleep_until = 0
               /\ ~delayed)
    /\ [][pc = "aborted" => pc' = "aborted"]_vars

C34_Witness ==
    /\ pc = "aborted"
    /\ lastStep = "health_fail"
    /\ probe_session = MainSession
    /\ connection_attempts = 0

(* C35: between the moment the controller abandoned or lost a stream and   *)
(* the next successful connect_stream, that is whenever it is at the loop   *)
(* top, attempting to connect or waiting to retry, `connected` is false.    *)
C35_ConnectedOnlyWhileOpen ==
    pc \in {"top", "connect", "sleep"} => ~connected

====
